---- MODULE Spec2Model ----
(***************************************************************************)
(* Model of taxi.py: the customer order dialog (aiogram FSM handlers of    *)
(* the clone bots), the order store, the distribution of a confirmed       *)
(* order to the drivers' group and the drivers' accept/reject callbacks.   *)
(*                                                                         *)
(* Texts are sequences of one-character strings, so that strip(), lower(), *)
(* int(), split('_', 1) and the f-strings are computed as Python computes  *)
(* them.  A message is a record [has_text, text]: has_text = FALSE is a    *)
(* message whose .text is None (a photo, a sticker).                       *)
(*                                                                         *)
(* Handlers run on one asyncio event loop: the code between two awaits of  *)
(* an outbound call is one atomic action, and handlers of different        *)
(* updates interleave at those awaits.                                     *)
(***************************************************************************)
EXTENDS Integers, Sequences, FiniteSets, TLC

\* ------------------------------------------------------------------------
\* Bounds of the model
\* ------------------------------------------------------------------------
\* number of order ids uuid4() hands out in one run
MaxOrders == 1

\* ------------------------------------------------------------------------
\* Python string primitives
\* ------------------------------------------------------------------------
\* str.isspace() of one character
IsSpace(ch) == ch \in {" ", "\t", "\n"}

\* str.lstrip()
RECURSIVE LStrip(_)
LStrip(s) == IF s = <<>> THEN <<>>
             ELSE IF IsSpace(Head(s)) THEN LStrip(Tail(s)) ELSE s

\* str.rstrip()
RECURSIVE RStrip(_)
RStrip(s) == IF s = <<>> THEN <<>>
             ELSE IF IsSpace(s[Len(s)]) THEN RStrip(SubSeq(s, 1, Len(s) - 1)) ELSE s

\* a broken strip that only removes leading whitespace
Strip_leading_only(s) == LStrip(s)

\* str.strip()
Strip(s) == RStrip(LStrip(s))

\* str.lower() of one character, over the letters the inputs use
LowerChar(ch) ==
    CASE ch = "Y" -> "y"
      [] ch = "E" -> "e"
      [] ch = "S" -> "s"
      [] ch = "N" -> "n"
      [] ch = "O" -> "o"
      [] ch = "A" -> "a"
      [] ch = "B" -> "b"
      [] OTHER -> ch

\* str.lower()
Lower(s) == [i \in 1..Len(s) |-> LowerChar(s[i])]

Digits == {"0", "1", "2", "3", "4", "5", "6", "7", "8", "9"}

DigitVal(ch) ==
    CASE ch = "0" -> 0 [] ch = "1" -> 1 [] ch = "2" -> 2 [] ch = "3" -> 3
      [] ch = "4" -> 4 [] ch = "5" -> 5 [] ch = "6" -> 6 [] ch = "7" -> 7
      [] ch = "8" -> 8 [] ch = "9" -> 9

\* value of a non-empty run of decimal digits
RECURSIVE DigitsValue(_)
DigitsValue(s) == IF s = <<>> THEN 0
                  ELSE 10 * DigitsValue(SubSeq(s, 1, Len(s) - 1)) + DigitVal(s[Len(s)])

\* int(text): surrounding whitespace and one sign are allowed, then only
\* digits; anything else raises ValueError
IntBody(s) == LET t == Strip(s)
              IN IF t # <<>> /\ Head(t) \in {"+", "-"} THEN Tail(t) ELSE t

IntParses(s) == LET b == IntBody(s)
                IN b # <<>> /\ \A i \in 1..Len(b) : b[i] \in Digits

IntValue(s) == LET t == Strip(s)
               IN IF Head(t) = "-" THEN 0 - DigitsValue(IntBody(s)) ELSE DigitsValue(IntBody(s))

\* index of the first occurrence of ch in s, 0 when there is none
RECURSIVE FindFrom(_, _, _)
FindFrom(s, ch, i) == IF i > Len(s) THEN 0
                      ELSE IF s[i] = ch THEN i ELSE FindFrom(s, ch, i + 1)

Find(s, ch) == FindFrom(s, ch, 1)

\* str.startswith()
StartsWith(s, p) == Len(s) >= Len(p) /\ SubSeq(s, 1, Len(p)) = p

\* ------------------------------------------------------------------------
\* Literals of the source
\* ------------------------------------------------------------------------
S_accept == <<"a", "c", "c", "e", "p", "t">>
S_reject == <<"r", "e", "j", "e", "c", "t">>
S_order  == <<"o", "r", "d", "e", "r">>
S_yes    == <<"y", "e", "s">>
S_no     == <<"n", "o">>
S_None   == <<"N", "o", "n", "e">>
S_start  == <<"/", "s", "t", "a", "r", "t">>

\* the arrow of the route-name f-string, taken as one symbol
ArrowLiteral == <<"ARROW">>

\* Config.MAIN_BOT_TOKEN and the token of a clone bot
MAIN_BOT_TOKEN == "main_token"
CloneToken == "clone_token"

\* ------------------------------------------------------------------------
\* Messages and the inputs the environment sends
\* ------------------------------------------------------------------------
TextMsg(s) == [has_text |-> TRUE, text |-> s]
NoTextMsg  == [has_text |-> FALSE, text |-> <<>>]

StartMsg == TextMsg(S_start)

\* OrderStates, in the order the dialog passes them
OrderStates == << "waiting_for_from", "waiting_for_to", "waiting_for_phone",
                  "waiting_for_luggage", "waiting_for_time", "waiting_for_comment",
                  "waiting_for_passengers", "confirm_order" >>

\* keys of the FSM data, in the order the dialog stores them
Fields == << "from_location", "to_location", "phone", "luggage", "time",
             "comment", "passengers" >>

FieldSet == {Fields[i] : i \in 1..Len(Fields)}

\* the FSM state of a conversation FSMContext knows nothing about
NoState == "none"

StateIndex(st) == CHOOSE i \in 1..Len(OrderStates) : OrderStates[i] = st

\* conversations: (token of the bot that received the update, chat id); one
\* user writes to the clone bot and to the main bot
Convs == { <<CloneToken, 501>>, <<MAIN_BOT_TOKEN, 501>> }

\* drivers pressing buttons in the main group: (user id, username)
Drivers == { <<71, "ann">>, <<72, "bob">> }

\* what a customer types at each step of the dialog (besides /start)
InputsAt(st) ==
    CASE st = "waiting_for_from" ->
            { NoTextMsg, TextMsg(<<" ">>), TextMsg(<<"a">>), TextMsg(<<" ", "b", " ">>) }
      [] st = "waiting_for_to" ->
            { NoTextMsg, TextMsg(<<" ", " ">>), TextMsg(<<"b", " ">>) }
      [] st = "waiting_for_phone" ->
            { TextMsg(<<" ">>), TextMsg(<<"+", "1", "5">>) }
      [] st = "waiting_for_luggage" ->
            { NoTextMsg, TextMsg(<<" ">>), TextMsg(<<"n", "o">>) }
      [] st = "waiting_for_time" ->
            { TextMsg(<<" ">>), TextMsg(<<" ", "n", "o", "w">>) }
      [] st = "waiting_for_comment" ->
            { NoTextMsg, TextMsg(<<" ">>), TextMsg(<<"a", " ">>) }
      [] st = "waiting_for_passengers" ->
            { NoTextMsg, TextMsg(<<" ">>), TextMsg(<<"a">>), TextMsg(<<"0">>),
              TextMsg(<<"-", "1">>), TextMsg(<<"1">>), TextMsg(<<" ", "2", " ">>) }
      [] st = "confirm_order" ->
            { NoTextMsg, TextMsg(<<"y", "e", "s">>), TextMsg(<<"Y", "e", "S">>),
              TextMsg(<<" ", "y", "e", "s">>), TextMsg(<<"n", "o">>), TextMsg(<<"N", "O">>),
              TextMsg(<<"n", "o", " ">>), TextMsg(<<"a">>), TextMsg(<<" ">>) }
      [] OTHER -> { NoTextMsg, TextMsg(<<"a">>) }

\* one well-formed answer per step: the inputs of the resolver harness
CanonicalInputsAt(st) ==
    CASE st = "waiting_for_from"       -> { TextMsg(<<"a">>) }
      [] st = "waiting_for_to"         -> { TextMsg(<<"b", " ">>) }
      [] st = "waiting_for_phone"      -> { TextMsg(<<"+", "1", "5">>) }
      [] st = "waiting_for_luggage"    -> { TextMsg(<<"n", "o">>) }
      [] st = "waiting_for_time"       -> { TextMsg(<<" ", "n", "o", "w">>) }
      [] st = "waiting_for_comment"    -> { TextMsg(<<"a", " ">>) }
      [] st = "waiting_for_passengers" -> { TextMsg(<<" ", "2", " ">>) }
      [] st = "confirm_order"          -> { TextMsg(<<"y", "e", "s">>) }
      [] OTHER -> {}

\* ------------------------------------------------------------------------
\* State
\* ------------------------------------------------------------------------
VARIABLES
    fsm_state,       \* MemoryStorage: conversation -> state name, NoState when unset
    fsm_data,        \* MemoryStorage: conversation -> the data dict (key -> value)
    orders,          \* InMemoryStorage.orders: order id -> Order
    routes,          \* InMemoryStorage.routes: route name -> thread id (None or Some)
    uuid_count,      \* number of ids uuid4() has produced
    confirm_task,    \* conversation -> the confirm_order coroutine suspended at an await
    published,       \* order id -> the send_message call distribute_order made for it
    callback_task,   \* driver -> the handle_order_callback run of that driver: suspended
                     \* at an await, or returned (pc "done", kept until the next press)
    edits,           \* edit_message_text calls made: [order_id, driver, kind]
    notified,        \* send_message calls made to customers: [order_id, chat, driver, reply_to]
    handler_result,  \* conversation -> what the last handler run sent back
    run,             \* conversation -> the answers given since /start, while all were well formed
    accept_replies,  \* <<order id, driver>> answered "You have accepted this order!"
    decline_replies, \* <<order id, driver>> answered "You have rejected this order."
    listing,         \* the order ids of the last /list_pending_orders reply (None before)
    bot_instances,   \* InMemoryStorage.bot_instances: token -> BotInstance
    polling,         \* tokens of the bots whose dp.start_polling is running. The
                     \* handlers are modelled on the updates the dispatcher is fed,
                     \* whichever loop feeds them
    posted,          \* order ids whose message in the drivers' group was delivered
    error_log,       \* failed calls of confirm_order, distribute_order and main()
    overlap_task,    \* conversation -> a second confirm_order coroutine, started while
                     \* the first one is suspended
    link_commands,   \* <<route name, thread id>> of the /link_route commands sent for
                     \* a route that was added
    admin_reply,     \* what the last admin handler answered
    main_task,       \* main(): where it is, the bots it has still to create, and
                     \* its list bots_to_poll
    unhandled,       \* the last update no registered handler took (None before)
    pass_orders      \* conversation -> ids of the orders stored since the conversation
                     \* last came to the confirmation

vars == << fsm_state, fsm_data, orders, routes, uuid_count, confirm_task, published,
           callback_task, edits, notified, handler_result, run, accept_replies,
           decline_replies, listing, bot_instances, polling, posted, error_log,
           overlap_task, link_commands, admin_reply, main_task, unhandled,
           pass_orders >>

\* Optional[...] values
None == {}
Some(v) == {v}

\* the empty data dict
EmptyData == [f \in {} |-> <<>>]

IdleTask == [pc |-> "idle"]

\* BotInstance(token, name, is_main, active), keyed by token in the store
BotInstance(name, is_main) == [name |-> name, is_main |-> is_main, active |-> TRUE]

\* InMemoryStorage.__init__: the store holds the main bot and nothing else
MainBotOnly == [t \in {MAIN_BOT_TOKEN} |-> BotInstance("Main Bot", TRUE)]

Init ==
    /\ fsm_state = [c \in Convs |-> NoState]
    /\ fsm_data = [c \in Convs |-> EmptyData]
    /\ orders = [o \in {} |-> <<>>]
    /\ routes = [r \in {} |-> None]
    /\ uuid_count = 0
    /\ confirm_task = [c \in Convs |-> IdleTask]
    /\ published = [o \in {} |-> <<>>]
    /\ callback_task = [d \in Drivers |-> IdleTask]
    /\ edits = {}
    /\ notified = {}
    /\ handler_result = [c \in Convs |-> "nothing"]
    /\ run = [c \in Convs |-> [on |-> FALSE, inputs |-> <<>>]]
    /\ accept_replies = {}
    /\ decline_replies = {}
    /\ listing = None
    /\ unhandled = None
    /\ bot_instances = MainBotOnly
    /\ polling = {MAIN_BOT_TOKEN}
    /\ posted = {}
    /\ error_log = {}
    /\ overlap_task = [c \in Convs |-> IdleTask]
    /\ pass_orders = [c \in Convs |-> {}]
    /\ link_commands = {}
    /\ admin_reply = "nothing"
    /\ main_task = [pc |-> "polling", todo |-> {}, bots_to_poll |-> {MAIN_BOT_TOKEN}]

\* ------------------------------------------------------------------------
\* The answers the dialog is specified to accept, with the value to be
\* stored for each (written out, not computed by the handlers' operators)
\* ------------------------------------------------------------------------
ValidAnswers(k) ==
    CASE k = 1 -> { [msg |-> TextMsg(<<"a">>), value |-> <<"a">>],
                    [msg |-> TextMsg(<<" ", "b", " ">>), value |-> <<"b">>] }
      [] k = 2 -> { [msg |-> TextMsg(<<"b", " ">>), value |-> <<"b">>] }
      [] k = 3 -> { [msg |-> TextMsg(<<"+", "1", "5">>), value |-> <<"+", "1", "5">>] }
      [] k = 4 -> { [msg |-> TextMsg(<<"n", "o">>), value |-> <<"n", "o">>] }
      [] k = 5 -> { [msg |-> TextMsg(<<" ", "n", "o", "w">>), value |-> <<"n", "o", "w">>] }
      [] k = 6 -> { [msg |-> TextMsg(<<"a", " ">>), value |-> <<"a">>] }
      [] k = 7 -> { [msg |-> TextMsg(<<"1">>), value |-> 1],
                    [msg |-> TextMsg(<<" ", "2", " ">>), value |-> 2] }
      [] OTHER -> {}

IsValidAnswer(k, m) == \E a \in ValidAnswers(k) : a.msg = m

ValueOfAnswer(k, m) == (CHOOSE a \in ValidAnswers(k) : a.msg = m).value

\* the texts the dialog is specified to reject at step k: empty or
\* whitespace-only text, and for the party size also text that is not a
\* positive integer
InvalidTexts(k) ==
    IF k = 7 THEN { TextMsg(<<" ">>), TextMsg(<<"a">>), TextMsg(<<"0">>), TextMsg(<<"-", "1">>) }
    ELSE IF k = 2 THEN { TextMsg(<<" ", " ">>) }
    ELSE { TextMsg(<<" ">>) }

\* the run of well-formed answers since /start, after one more message
RunAfter(c, m) ==
    LET r == run[c]
        k == Len(r.inputs) + 1
    IN IF r.on /\ k <= 7 /\ IsValidAnswer(k, m)
       THEN [on |-> TRUE, inputs |-> Append(r.inputs, m)]
       ELSE [on |-> FALSE, inputs |-> <<>>]

\* ------------------------------------------------------------------------
\* Filters of the dispatcher (main, registration of the handlers)
\* ------------------------------------------------------------------------
\* IsMainBot / IsCloneBot on the bot that received the update
IsMainBot_any(token) == TRUE
IsMainBot(token) == token = MAIN_BOT_TOKEN
IsCloneBot(token) == token # MAIN_BOT_TOKEN

\* CommandStart(): the first word of the text is /start
FirstWord(s) == LET t == LStrip(s)
                    i == Find(t, " ")
                IN IF i = 0 THEN t ELSE SubSeq(t, 1, i - 1)

IsStartCommand(m) == m.has_text /\ FirstWord(m.text) = S_start

\* no coroutine of this conversation is suspended: the customer answers the
\* bot's last message
ConvReady(c) == confirm_task[c].pc = "idle"

\* `not message.text or not message.text.strip()`
IsBlank(m) == ~m.has_text \/ m.text = <<>> \/ Strip(m.text) = <<>>

\* state.update_data(key=value)
UpdateData(data, key, value) ==
    [f \in DOMAIN data \cup {key} |-> IF f = key THEN value ELSE data[f]]

FsmUnchanged == UNCHANGED << fsm_state, fsm_data >>
StoreUnchanged == UNCHANGED << orders, uuid_count, published, posted >>
AdminUnchanged ==
    UNCHANGED << routes, listing, bot_instances, polling, link_commands, admin_reply,
                 main_task, unhandled >>
\* no call failed and no second coroutine of a conversation moved
QuietUnchanged == UNCHANGED << error_log, overlap_task, pass_orders >>
CallbacksUnchanged ==
    UNCHANGED << callback_task, edits, notified, accept_replies, decline_replies >>

\* ------------------------------------------------------------------------
\* Clone bot handlers: the order dialog
\* ------------------------------------------------------------------------
\* clone_bot_start: registered for CommandStart() with no state filter
clone_bot_start(c, m) ==
    /\ ConvReady(c)
    /\ IsCloneBot(c[1])
    /\ IsStartCommand(m)
    /\ fsm_state' = [fsm_state EXCEPT ![c] = "waiting_for_from"]
    /\ handler_result' = [handler_result EXCEPT ![c] = "welcome"]
    /\ run' = [run EXCEPT ![c] = [on |-> TRUE, inputs |-> <<>>]]
    /\ UNCHANGED << fsm_data, confirm_task >>
    /\ StoreUnchanged /\ CallbacksUnchanged /\ AdminUnchanged /\ QuietUnchanged

\* the five handlers of a free-text step share one shape: reject a blank
\* message, else store the stripped text, prompt for the next field and
\* advance
FreeTextStep(c, m, st, key, next) ==
    /\ ConvReady(c)
    /\ IsCloneBot(c[1])
    /\ ~IsStartCommand(m)
    /\ fsm_state[c] = st
    /\ IF IsBlank(m)
       THEN /\ handler_result' = [handler_result EXCEPT ![c] = "invalid"]
            /\ FsmUnchanged
       ELSE /\ fsm_data' = [fsm_data EXCEPT ![c] = UpdateData(fsm_data[c], key, Strip(m.text))]
            /\ fsm_state' = [fsm_state EXCEPT ![c] = next]
            /\ handler_result' = [handler_result EXCEPT ![c] = "prompt"]
    /\ run' = [run EXCEPT ![c] = RunAfter(c, m)]
    /\ UNCHANGED confirm_task
    /\ StoreUnchanged /\ CallbacksUnchanged /\ AdminUnchanged /\ QuietUnchanged

process_from_location(c, m) ==
    FreeTextStep(c, m, "waiting_for_from", "from_location", "waiting_for_to")

process_to_location(c, m) ==
    FreeTextStep(c, m, "waiting_for_to", "to_location", "waiting_for_phone")

process_phone(c, m) ==
    FreeTextStep(c, m, "waiting_for_phone", "phone", "waiting_for_luggage")

process_luggage(c, m) ==
    FreeTextStep(c, m, "waiting_for_luggage", "luggage", "waiting_for_time")

process_time(c, m) ==
    FreeTextStep(c, m, "waiting_for_time", "time", "waiting_for_comment")

\* `message.text.strip() if message.text else "None"`
CommentValue(m) == IF m.has_text /\ m.text # <<>> THEN Strip(m.text) ELSE S_None

\* process_comment: no validation, every message advances
process_comment(c, m) ==
    /\ ConvReady(c)
    /\ IsCloneBot(c[1])
    /\ ~IsStartCommand(m)
    /\ fsm_state[c] = "waiting_for_comment"
    /\ fsm_data' = [fsm_data EXCEPT ![c] = UpdateData(fsm_data[c], "comment", CommentValue(m))]
    /\ fsm_state' = [fsm_state EXCEPT ![c] = "waiting_for_passengers"]
    /\ handler_result' = [handler_result EXCEPT ![c] = "prompt"]
    /\ run' = [run EXCEPT ![c] = RunAfter(c, m)]
    /\ UNCHANGED confirm_task
    /\ StoreUnchanged /\ CallbacksUnchanged /\ AdminUnchanged /\ QuietUnchanged

\* a passengers check that lets zero through
PassengersAccepted_nonnegative(m) == IntParses(m.text) /\ IntValue(m.text) >= 0

\* int(message.text.strip()) succeeds and the number is positive
PassengersAccepted(m) == IntParses(m.text) /\ IntValue(m.text) > 0

\* process_passengers: message.text.strip() on a message without text raises
\* AttributeError, which the except clause (ValueError, TypeError) lets through
process_passengers(c, m) ==
    /\ ConvReady(c)
    /\ IsCloneBot(c[1])
    /\ ~IsStartCommand(m)
    /\ fsm_state[c] = "waiting_for_passengers"
    /\ IF ~m.has_text
       THEN /\ handler_result' = [handler_result EXCEPT ![c] = "exception"]
            /\ UNCHANGED pass_orders
            /\ FsmUnchanged
       ELSE IF ~PassengersAccepted(m)
       THEN /\ handler_result' = [handler_result EXCEPT ![c] = "invalid"]
            /\ UNCHANGED pass_orders
            /\ FsmUnchanged
       ELSE /\ fsm_data' = [fsm_data EXCEPT ![c] =
                               UpdateData(fsm_data[c], "passengers", IntValue(m.text))]
            /\ fsm_state' = [fsm_state EXCEPT ![c] = "confirm_order"]
            /\ handler_result' = [handler_result EXCEPT ![c] = "review"]
            /\ pass_orders' = [pass_orders EXCEPT ![c] = {}]
    /\ run' = [run EXCEPT ![c] = RunAfter(c, m)]
    /\ UNCHANGED << confirm_task, error_log, overlap_task >>
    /\ StoreUnchanged /\ CallbacksUnchanged /\ AdminUnchanged

\* ------------------------------------------------------------------------
\* confirm_order and distribute_order
\* ------------------------------------------------------------------------
IdDigits == <<"1", "2", "3", "4", "5", "6", "7", "8", "9">>

\* str(uuid.uuid4()) for the n-th call: hexadecimal digits and dashes, a
\* different string on every call
UuidStr(n) == <<"f", "-", IdDigits[n]>>

\* Config.MAIN_GROUP_ID
MAIN_GROUP_ID == "-1002553104013"

\* message_id of the "order received" message sent to the customer
ConfirmationMessageId(c) == c[2] + 1

\* an Order whose fields are filled from the wrong keys
NewOrder_swapped(id, data, c) ==
    [ id |-> id,
      from_location |-> data["to_location"],
      to_location |-> data["from_location"],
      phone |-> data["phone"],
      luggage |-> data["luggage"],
      time |-> data["time"],
      comment |-> data["comment"],
      passengers |-> data["passengers"],
      status |-> "pending",
      driver_id |-> None,
      driver_username |-> None,
      clone_bot_token |-> c[1],
      customer_chat_id |-> c[2],
      customer_message_id |-> None ]

\* Order(id=order_id, from_location=user_data['from_location'], ...)
NewOrder(id, data, c) ==
    [ id |-> id,
      from_location |-> data["from_location"],
      to_location |-> data["to_location"],
      phone |-> data["phone"],
      luggage |-> data["luggage"],
      time |-> data["time"],
      comment |-> data["comment"],
      passengers |-> data["passengers"],
      status |-> "pending",
      driver_id |-> None,
      driver_username |-> None,
      clone_bot_token |-> c[1],
      customer_chat_id |-> c[2],
      customer_message_id |-> None ]

\* a store that forgets an order once it is declined
PutOrder_forgetting_declined(store, order) ==
    [o \in (DOMAIN store \cup {order.id}) \
              (IF order.status = "rejected" THEN {order.id} ELSE {}) |->
        IF o = order.id THEN order ELSE store[o]]

\* storage.add_order / storage.update_order: self.orders[order.id] = order
PutOrder(store, order) ==
    [o \in DOMAIN store \cup {order.id} |-> IF o = order.id THEN order ELSE store[o]]

\* a confirmation that compares the text as typed, without lower()
ConfirmWord_case_sensitive(m) == Strip(m.text)

\* message.text.lower().strip()
ConfirmWord(m) == Strip(Lower(m.text))

\* confirm_order up to its first await: 'yes' builds the Order, stores it and
\* sends "order received"; 'no' cancels and clears; anything else re-prompts.
\* A message without text raises AttributeError at message.text.lower().
confirm_order(c, m) ==
    /\ ConvReady(c)
    /\ IsCloneBot(c[1])
    /\ ~IsStartCommand(m)
    /\ fsm_state[c] = "confirm_order"
    /\ run' = [run EXCEPT ![c] = RunAfter(c, m)]
    /\ UNCHANGED << published, posted, error_log, overlap_task >>
    /\ CallbacksUnchanged /\ AdminUnchanged
    /\ IF ~m.has_text
       THEN /\ handler_result' = [handler_result EXCEPT ![c] = "exception"]
            /\ UNCHANGED << fsm_state, fsm_data, orders, uuid_count, confirm_task,
                            pass_orders >>
       ELSE IF ConfirmWord(m) = S_yes
       THEN /\ uuid_count < MaxOrders
            /\ IF FieldSet \subseteq DOMAIN fsm_data[c]
               THEN LET id == UuidStr(uuid_count + 1)
                    IN /\ orders' = PutOrder(orders, NewOrder(id, fsm_data[c], c))
                       /\ uuid_count' = uuid_count + 1
                       /\ confirm_task' = [confirm_task EXCEPT ![c] =
                                             [pc |-> "answer", order_id |-> id]]
                       /\ handler_result' = [handler_result EXCEPT ![c] = "received"]
                       /\ pass_orders' = [pass_orders EXCEPT ![c] = @ \cup {id}]
               ELSE /\ handler_result' = [handler_result EXCEPT ![c] = "exception"]
                    /\ UNCHANGED << orders, uuid_count, confirm_task, pass_orders >>
            /\ FsmUnchanged
       ELSE IF ConfirmWord(m) = S_no
       THEN /\ handler_result' = [handler_result EXCEPT ![c] = "cancelled"]
            /\ fsm_state' = [fsm_state EXCEPT ![c] = NoState]
            /\ fsm_data' = [fsm_data EXCEPT ![c] = EmptyData]
            /\ UNCHANGED << orders, uuid_count, confirm_task, pass_orders >>
       ELSE /\ handler_result' = [handler_result EXCEPT ![c] = "yes_or_no"]
            /\ UNCHANGED << fsm_state, fsm_data, orders, uuid_count, confirm_task,
                            pass_orders >>

\* a route name without the spaces around the arrow
RouteNameFromOrder_no_spaces(order) ==
    order.from_location \o ArrowLiteral \o order.to_location

\* f"{order.from_location} -> {order.to_location}": a space on either side
\* of the arrow
RouteNameFromOrder(order) ==
    order.from_location \o <<" ">> \o ArrowLiteral \o <<" ">> \o order.to_location

\* `route.thread_id if route and route.thread_id else None`
TargetThreadId(route_name) ==
    IF route_name \in DOMAIN routes /\ routes[route_name] # None /\ routes[route_name] # Some(0)
    THEN routes[route_name]
    ELSE None

\* callback_data of the two buttons of get_order_markup
CallbackData(action, order_id) == action \o <<"_">> \o S_order \o <<"_">> \o order_id

\* confirm_order resumed after "order received" was sent: remember the
\* message id on the order, then distribute_order up to its send_message
confirm_order_answered(c) ==
    /\ confirm_task[c].pc = "answer"
    /\ LET id == confirm_task[c].order_id
           order == [orders[id] EXCEPT !.customer_message_id = Some(ConfirmationMessageId(c))]
           route_name == RouteNameFromOrder(order)
       IN /\ orders' = PutOrder(orders, order)
          /\ published' = [o \in DOMAIN published \cup {id} |->
                             IF o = id
                             THEN [ chat_id |-> MAIN_GROUP_ID,
                                    route_name |-> route_name,
                                    message_thread_id |-> TargetThreadId(route_name),
                                    accept_data |-> CallbackData(S_accept, id),
                                    reject_data |-> CallbackData(S_reject, id),
                                    via |-> MAIN_BOT_TOKEN ]
                             ELSE published[o]]
    /\ confirm_task' = [confirm_task EXCEPT ![c].pc = "send"]
    /\ UNCHANGED << uuid_count, posted, handler_result, run >>
    /\ FsmUnchanged /\ CallbacksUnchanged /\ AdminUnchanged /\ QuietUnchanged

\* a distribute_order that lets the exception of send_message through
DistributeReturns_reraising(delivered) == delivered

\* distribute_order returns to confirm_order whether send_message returned
\* or raised: the try / except Exception around the send logs and goes on
DistributeReturns(delivered) == TRUE

\* confirm_order after the send_message of distribute_order: when
\* distribute_order returns, state.clear(); when it raises, the handler ends
\* where it is
AfterDistribute(c, delivered) ==
    /\ confirm_task[c].pc = "send"
    /\ IF DistributeReturns(delivered)
       THEN /\ fsm_state' = [fsm_state EXCEPT ![c] = NoState]
            /\ fsm_data' = [fsm_data EXCEPT ![c] = EmptyData]
       ELSE FsmUnchanged
    /\ confirm_task' = [confirm_task EXCEPT ![c] = IdleTask]
    /\ posted' = IF delivered THEN posted \cup {confirm_task[c].order_id} ELSE posted
    /\ error_log' = IF delivered THEN error_log
                    ELSE error_log \cup {[call |-> "send_order",
                                          order_id |-> confirm_task[c].order_id, who |-> c]}
    /\ UNCHANGED << orders, uuid_count, published, overlap_task, handler_result, run,
                    pass_orders >>
    /\ CallbacksUnchanged /\ AdminUnchanged

\* the message.answer of confirm_order ("order received") raised: the call
\* is in no try block, the exception leaves the handler, which neither
\* posts the order nor clears the conversation
confirm_order_answer_failed(c) ==
    /\ confirm_task[c].pc = "answer"
    /\ confirm_task' = [confirm_task EXCEPT ![c] = IdleTask]
    /\ handler_result' = [handler_result EXCEPT ![c] = "exception"]
    /\ error_log' = error_log \cup {[call |-> "answer_customer",
                                     order_id |-> confirm_task[c].order_id, who |-> c]}
    /\ UNCHANGED << overlap_task, run, pass_orders >>
    /\ FsmUnchanged /\ StoreUnchanged /\ CallbacksUnchanged /\ AdminUnchanged

\* confirm_order resumed after distribute_order posted the order
confirm_order_distributed(c) == AfterDistribute(c, TRUE)

\* the send_message of distribute_order raised (the group is unreachable,
\* the topic was deleted, the API call failed)
confirm_order_send_failed(c) == AfterDistribute(c, FALSE)

\* the send_message call distribute_order makes for an order
PostOf(order) ==
    [ chat_id |-> MAIN_GROUP_ID,
      route_name |-> RouteNameFromOrder(order),
      message_thread_id |-> TargetThreadId(RouteNameFromOrder(order)),
      accept_data |-> CallbackData(S_accept, order.id),
      reject_data |-> CallbackData(S_reject, order.id),
      via |-> MAIN_BOT_TOKEN ]

\* start_polling handles every update in a task of its own
\* (handle_as_tasks), and the dispatcher has no events isolation: a second
\* message of a conversation is dispatched while confirm_order is suspended
\* at an await. The conversation is still in state confirm_order, so the
\* second message goes to confirm_order too, which runs to its first await.
confirm_order_overlapping(c, m) ==
    /\ confirm_task[c].pc \in {"answer", "send"}
    /\ overlap_task[c].pc = "idle"
    /\ IsCloneBot(c[1])
    /\ ~IsStartCommand(m)
    /\ fsm_state[c] = "confirm_order"
    /\ m.has_text
    /\ IF ConfirmWord(m) = S_yes
       THEN /\ uuid_count < MaxOrders + 1
            /\ FieldSet \subseteq DOMAIN fsm_data[c]
            /\ LET id == UuidStr(uuid_count + 1)
               IN /\ orders' = PutOrder(orders, NewOrder(id, fsm_data[c], c))
                  /\ uuid_count' = uuid_count + 1
                  /\ overlap_task' = [overlap_task EXCEPT ![c] =
                                        [pc |-> "answer", word |-> S_yes, order_id |-> id]]
                  /\ pass_orders' = [pass_orders EXCEPT ![c] = @ \cup {id}]
       ELSE /\ overlap_task' = [overlap_task EXCEPT ![c] =
                                  [pc |-> "answer", word |-> ConfirmWord(m), order_id |-> <<>>]]
            /\ UNCHANGED << orders, uuid_count, pass_orders >>
    /\ UNCHANGED << published, posted, error_log, confirm_task, handler_result, run >>
    /\ FsmUnchanged /\ CallbacksUnchanged /\ AdminUnchanged

\* the rest of the second confirm_order, its awaits returning one after the
\* other: a yes writes the message id, posts the order and clears the
\* conversation, a no clears the conversation, anything else only re-prompts
confirm_order_overlapping_resumed(c) ==
    /\ overlap_task[c].pc = "answer"
    /\ overlap_task' = [overlap_task EXCEPT ![c] = IdleTask]
    /\ IF overlap_task[c].word = S_yes
       THEN LET id == overlap_task[c].order_id
                order == [orders[id] EXCEPT
                             !.customer_message_id = Some(ConfirmationMessageId(c) + 1)]
            IN /\ orders' = PutOrder(orders, order)
               /\ published' = [o \in DOMAIN published \cup {id} |->
                                  IF o = id THEN PostOf(order) ELSE published[o]]
               /\ posted' = posted \cup {id}
               /\ fsm_state' = [fsm_state EXCEPT ![c] = NoState]
               /\ fsm_data' = [fsm_data EXCEPT ![c] = EmptyData]
       ELSE IF overlap_task[c].word = S_no
       THEN /\ fsm_state' = [fsm_state EXCEPT ![c] = NoState]
            /\ fsm_data' = [fsm_data EXCEPT ![c] = EmptyData]
            /\ UNCHANGED << orders, published, posted >>
       ELSE /\ FsmUnchanged
            /\ UNCHANGED << orders, published, posted >>
    /\ UNCHANGED << uuid_count, error_log, confirm_task, handler_result, run,
                    pass_orders >>
    /\ CallbacksUnchanged /\ AdminUnchanged

\* ------------------------------------------------------------------------
\* handle_order_callback
\* ------------------------------------------------------------------------
\* `action, order_id = query.data.split('_', 1)`: the text before the first
\* underscore and the text after it
SplitAction(data) == SubSeq(data, 1, Find(data, "_") - 1)

SplitOrderId(data) == SubSeq(data, Find(data, "_") + 1, Len(data))

\* a check that only stops claims on a rejected order
OrderIsResolved_rejected_only(order) == order.status = "rejected"

\* a check that never stops a claim
OrderIsResolved_never(order) == FALSE

\* `if order.status != "pending"`
OrderIsResolved(order) == order.status # "pending"

\* an accept that writes the status and leaves the driver out
AcceptedOrder_status_only(order, d) == [order EXCEPT !.status = "accepted"]
\* order.status = "accepted"; order.driver_id = ...; order.driver_username = ...
AcceptedOrder(order, d) ==
    [order EXCEPT !.status = "accepted",
                  !.driver_id = Some(d[1]),
                  !.driver_username = Some(d[2])]

\* order.status = "rejected"
RejectedOrder(order) == [order EXCEPT !.status = "rejected"]

\* a lookup that finds an order whenever the store is not empty
LookupOrderId_any(order_id) ==
    IF order_id \in DOMAIN orders THEN Some(order_id)
    ELSE IF DOMAIN orders # {} THEN Some(CHOOSE o \in DOMAIN orders : TRUE)
    ELSE None

\* storage.get_order(order_id): self.orders.get(order_id)
LookupOrderId(order_id) == IF order_id \in DOMAIN orders THEN Some(order_id) ELSE None

\* handle_order_callback from its start to the await of query.answer.
\* No await separates the status check from the write of the new status.
HandleOrderCallback(d, data) ==
    /\ callback_task[d].pc \in {"idle", "done", "aborted"}
    /\ UNCHANGED << uuid_count, published, posted, edits, notified, confirm_task,
                    handler_result, run >>
    /\ FsmUnchanged /\ AdminUnchanged /\ QuietUnchanged
    /\ IF Find(data, "_") = 0
       THEN \* unpacking one value into two names raises ValueError
            UNCHANGED << orders, callback_task, accept_replies, decline_replies >>
       ELSE LET action == SplitAction(data)
                order_id == SplitOrderId(data)
                found == LookupOrderId(order_id)
                task == [pc |-> "answer", data |-> data, action |-> action,
                         order_id |-> order_id, failed |-> {}]
            IN IF found = None
               THEN /\ callback_task' = [callback_task EXCEPT ![d] =
                                           task @@ [reply |-> "NotFound"]]
                    /\ UNCHANGED << orders, accept_replies, decline_replies >>
               ELSE LET oid == CHOOSE o \in found : TRUE
                        order == orders[oid]
                    IN IF OrderIsResolved(order)
                       THEN /\ callback_task' = [callback_task EXCEPT ![d] =
                                                   task @@ [reply |-> "AlreadyResolved"]]
                            /\ UNCHANGED << orders, accept_replies, decline_replies >>
                       ELSE IF action = S_accept
                       THEN /\ orders' = PutOrder(orders, AcceptedOrder(order, d))
                            /\ callback_task' = [callback_task EXCEPT ![d] =
                                                   task @@ [reply |-> "Accepted"]]
                            /\ accept_replies' = accept_replies \cup {<<oid, d>>}
                            /\ UNCHANGED decline_replies
                       ELSE IF action = S_reject
                       THEN /\ orders' = PutOrder(orders, RejectedOrder(order))
                            /\ callback_task' = [callback_task EXCEPT ![d] =
                                                   task @@ [reply |-> "Declined"]]
                            /\ decline_replies' = decline_replies \cup {<<oid, d>>}
                            /\ UNCHANGED accept_replies
                       ELSE UNCHANGED << orders, callback_task, accept_replies, decline_replies >>

\* a callback query on bot `token`; the registration lets the update through
\* when its data starts with accept_order_ or reject_order_ and the update
\* came in on the main bot
callback_update(token, d, data) ==
    /\ \/ StartsWith(data, S_accept \o <<"_">> \o S_order \o <<"_">>)
       \/ StartsWith(data, S_reject \o <<"_">> \o S_order \o <<"_">>)
    /\ IsMainBot(token)
    /\ HandleOrderCallback(d, data)

\* the callback query of a button arrives on the bot that sent the message
press_button(d, o, action) ==
    /\ o \in DOMAIN published
    /\ o \in posted
    /\ callback_update(published[o].via, d,
                       IF action = S_accept THEN published[o].accept_data
                       ELSE published[o].reject_data)

\* the callback data of the resolver harness: the handler called on
\* "<action>_<order id>" for ids in the store and ids not in it
HarnessData == { a \o <<"_">> \o UuidStr(n) : a \in {S_accept, S_reject}, n \in 1..(MaxOrders + 1) }

\* handle_order_callback called directly, as a unit, on a callback query
invoke_callback(d, data) == HandleOrderCallback(d, data)

\* query.answer returned; an accept or a reject goes on to edit the group
\* message, the other outcomes return
callback_answered(d) ==
    /\ callback_task[d].pc = "answer"
    /\ LET t == callback_task[d]
       IN IF t.reply \in {"Accepted", "Declined"}
          THEN /\ edits' = edits \cup {[ order_id |-> t.order_id, driver |-> d,
                                         kind |-> t.reply ]}
               /\ callback_task' = [callback_task EXCEPT ![d].pc = "edit"]
          ELSE /\ callback_task' = [callback_task EXCEPT ![d].pc = "done"]
               /\ UNCHANGED edits
    /\ UNCHANGED << notified, accept_replies, decline_replies, confirm_task, handler_result, run >>
    /\ FsmUnchanged /\ StoreUnchanged /\ AdminUnchanged /\ QuietUnchanged

\* query.answer raised (the query is too old, the API call failed): the call
\* is in no try block, the exception leaves the handler before the edit
callback_answer_failed(d) ==
    /\ callback_task[d].pc = "answer"
    /\ callback_task' = [callback_task EXCEPT ![d].pc = "aborted",
                                              ![d].failed = @ \cup {"query_answer"}]
    /\ UNCHANGED << edits, notified, accept_replies, decline_replies, confirm_task,
                    handler_result, run, overlap_task, error_log,
                    pass_orders >>
    /\ FsmUnchanged /\ StoreUnchanged /\ AdminUnchanged

\* a handler that notifies the customer whatever the driver was answered
NotifiesCustomer_any_reply(t, order) == order.customer_chat_id # 0

\* the send_message to the customer is in the accept branch, under
\* `if order.customer_chat_id`
NotifiesCustomer(t, order) == t.reply = "Accepted" /\ order.customer_chat_id # 0

\* the try / except Exception around edit_message_text logs and goes on
GoesOnAfterEdit(edited) == TRUE

\* edit_message_text returned, or raised and was logged; after an accept the
\* customer is notified through main_bot
AfterEdit(d, edited) ==
    /\ callback_task[d].pc = "edit"
    /\ LET t == callback_task[d]
           order == orders[t.order_id]
       IN IF GoesOnAfterEdit(edited) /\ NotifiesCustomer(t, order)
          THEN /\ notified' = notified \cup {[ order_id |-> t.order_id,
                                               chat_id |-> order.customer_chat_id,
                                               driver |-> d,
                                               reply_to |-> order.customer_message_id,
                                               via |-> MAIN_BOT_TOKEN ]}
               /\ callback_task' = [callback_task EXCEPT
                                       ![d].pc = "notify",
                                       ![d].failed = IF edited THEN @ ELSE @ \cup {"edit"}]
          ELSE /\ callback_task' = [callback_task EXCEPT
                                       ![d].pc = "done",
                                       ![d].failed = IF edited THEN @ ELSE @ \cup {"edit"}]
               /\ UNCHANGED notified
    /\ UNCHANGED << edits, accept_replies, decline_replies, confirm_task, handler_result,
                    run, overlap_task, error_log, pass_orders >>
    /\ FsmUnchanged /\ StoreUnchanged /\ AdminUnchanged

callback_edited(d) == AfterEdit(d, TRUE)

callback_edit_failed(d) == AfterEdit(d, FALSE)

\* send_message to the customer returned, or raised and was logged
AfterNotify(d, sent) ==
    /\ callback_task[d].pc = "notify"
    /\ callback_task' = [callback_task EXCEPT
                            ![d].pc = "done",
                            ![d].failed = IF sent THEN @ ELSE @ \cup {"notify"}]
    /\ UNCHANGED << edits, notified, accept_replies, decline_replies, confirm_task,
                    handler_result, run, overlap_task, error_log,
                    pass_orders >>
    /\ FsmUnchanged /\ StoreUnchanged /\ AdminUnchanged

callback_notified(d) == AfterNotify(d, TRUE)

callback_notify_failed(d) == AfterNotify(d, FALSE)

\* ------------------------------------------------------------------------
\* Admin handlers of the main bot
\* ------------------------------------------------------------------------
\* storage.get_pending_orders()
PendingOrders == {o \in DOMAIN orders : orders[o].status = "pending"}

\* /list_pending_orders from an admin on the main bot
list_pending_orders ==
    /\ listing' = Some(PendingOrders)
    /\ admin_reply' = IF PendingOrders = {} THEN "no_pending_orders" ELSE "pending_orders"
    /\ UNCHANGED << routes, bot_instances, polling, link_commands, main_task,
                    confirm_task, handler_result, run, unhandled >>
    /\ FsmUnchanged /\ StoreUnchanged /\ CallbacksUnchanged /\ QuietUnchanged

\* Config.ADMIN_USER_IDS
ADMIN_USER_IDS == {1382414440}

\* IsAdmin: message.from_user.id in storage.admin_users
IsAdmin_any(user) == TRUE
IsAdmin(user) == user \in ADMIN_USER_IDS

\* Command("name"): the first word of the text is /name
IsCommand(m, cmd) == m.has_text /\ FirstWord(m.text) = <<cmd>>

RECURSIVE FirstSpaceFrom(_, _)
FirstSpaceFrom(s, i) == IF i > Len(s) THEN 0
                        ELSE IF IsSpace(s[i]) THEN i ELSE FirstSpaceFrom(s, i + 1)

\* str.split(maxsplit=n): words cut at runs of whitespace, at most n cuts;
\* what is left after the n-th cut is the last element, as it stands but
\* for its leading whitespace
RECURSIVE SplitWhitespace(_, _)
SplitWhitespace(s, maxsplit) ==
    LET t == LStrip(s)
        i == FirstSpaceFrom(t, 1)
    IN IF t = <<>> THEN <<>>
       ELSE IF maxsplit = 0 \/ i = 0 THEN <<t>>
       ELSE <<SubSeq(t, 1, i - 1)>> \o SplitWhitespace(SubSeq(t, i + 1, Len(t)), maxsplit - 1)

\* a handler of the admin panel changes nothing but the admin's store
AdminFrame ==
    /\ UNCHANGED << confirm_task, handler_result, run, listing, polling, main_task,
                    unhandled >>
    /\ FsmUnchanged /\ StoreUnchanged /\ CallbacksUnchanged /\ QuietUnchanged

\* admin_start: /start or /admin on the main bot shows the panel
admin_start(token, user, m) ==
    /\ IsAdmin(user) /\ IsMainBot(token)
    /\ IsCommand(m, "/start") \/ IsCommand(m, "/admin")
    /\ admin_reply' = "panel"
    /\ UNCHANGED << routes, bot_instances, link_commands >>
    /\ AdminFrame

\* storage.add_route(Route(name=name)): a route without a topic
PutRoute(store, name, thread_id) ==
    [r \in DOMAIN store \cup {name} |-> IF r = name THEN thread_id ELSE store[r]]

\* /add_route <name>
add_route(token, user, m) ==
    /\ IsAdmin(user) /\ IsMainBot(token)
    /\ IsCommand(m, "/add_route")
    /\ LET args == SplitWhitespace(m.text, 1)
       IN IF Len(args) # 2
          THEN /\ admin_reply' = "usage"
               /\ UNCHANGED routes
          ELSE LET name == Strip(args[2])
               IN IF name \in DOMAIN routes
                  THEN /\ admin_reply' = "route_exists"
                       /\ UNCHANGED routes
                  ELSE /\ routes' = PutRoute(routes, name, None)
                       /\ admin_reply' = "route_added"
    /\ UNCHANGED << bot_instances, link_commands >>
    /\ AdminFrame

\* the /link_route commands sent for routes in the store: the command just
\* sent replaces an earlier one for the same route
LinkCommandsAfter(cmd) ==
    IF cmd.name \in DOMAIN routes
    THEN {lc \in link_commands : lc[1] # cmd.name} \cup {<<cmd.name, cmd.thread_id>>}
    ELSE link_commands

\* /link_route <name> <thread_id>; cmd.text is the text of the message,
\* cmd.name and cmd.thread_id are what the admin put in the two places
link_route(token, user, cmd) ==
    /\ IsAdmin(user) /\ IsMainBot(token)
    /\ IsCommand(TextMsg(cmd.text), "/link_route")
    /\ LET args == SplitWhitespace(cmd.text, 2)
       IN IF Len(args) # 3
          THEN /\ admin_reply' = "usage"
               /\ UNCHANGED routes
          ELSE LET name == Strip(args[2])
               IN IF ~IntParses(args[3])
                  THEN /\ admin_reply' = "invalid_thread_id"
                       /\ UNCHANGED routes
                  ELSE IF name \notin DOMAIN routes
                  THEN /\ admin_reply' = "route_not_found"
                       /\ UNCHANGED routes
                  ELSE /\ routes' = PutRoute(routes, name, Some(IntValue(args[3])))
                       /\ admin_reply' = "route_linked"
    /\ link_commands' = LinkCommandsAfter(cmd)
    /\ UNCHANGED bot_instances
    /\ AdminFrame

\* storage.delete_route(name)
WithoutRoute(store, name) == [r \in DOMAIN store \ {name} |-> store[r]]

\* /delete_route <name>
delete_route(token, user, m) ==
    /\ IsAdmin(user) /\ IsMainBot(token)
    /\ IsCommand(m, "/delete_route")
    /\ LET args == SplitWhitespace(m.text, 1)
       IN IF Len(args) # 2
          THEN /\ admin_reply' = "usage"
               /\ UNCHANGED << routes, link_commands >>
          ELSE LET name == Strip(args[2])
               IN IF name \notin DOMAIN routes
                  THEN /\ admin_reply' = "route_not_found"
                       /\ UNCHANGED << routes, link_commands >>
                  ELSE /\ routes' = WithoutRoute(routes, name)
                       /\ link_commands' = {lc \in link_commands : lc[1] # name}
                       /\ admin_reply' = "route_deleted"
    /\ UNCHANGED bot_instances
    /\ AdminFrame

\* a bot token is one word of the text of a command
TokenOfWord(w) == IF Len(w) = 1 THEN w[1] ELSE "malformed"

\* storage.add_bot_instance
PutBotInstance(store, token, instance) ==
    [t \in DOMAIN store \cup {token} |-> IF t = token THEN instance ELSE store[t]]

\* /add_clone_bot <token> <name>
add_clone_bot(token, user, m) ==
    /\ IsAdmin(user) /\ IsMainBot(token)
    /\ IsCommand(m, "/add_clone_bot")
    /\ LET args == SplitWhitespace(m.text, 2)
       IN IF Len(args) # 3
          THEN /\ admin_reply' = "usage"
               /\ UNCHANGED bot_instances
          ELSE IF TokenOfWord(args[2]) \in DOMAIN bot_instances
          THEN /\ admin_reply' = "bot_exists"
               /\ UNCHANGED bot_instances
          ELSE /\ bot_instances' = PutBotInstance(bot_instances, TokenOfWord(args[2]),
                                                   BotInstance(args[3], FALSE))
               /\ admin_reply' = "bot_added_restart_needed"
    /\ UNCHANGED << routes, link_commands >>
    /\ AdminFrame

\* `if not storage.get_bot_instance(token)`: any token of the store can be
\* deleted
DeletableToken(token) == token \in DOMAIN bot_instances

\* /delete_clone_bot <token>
delete_clone_bot(token, user, m) ==
    /\ IsAdmin(user) /\ IsMainBot(token)
    /\ IsCommand(m, "/delete_clone_bot")
    /\ LET args == SplitWhitespace(m.text, 1)
       IN IF Len(args) # 2
          THEN /\ admin_reply' = "usage"
               /\ UNCHANGED bot_instances
          ELSE IF ~DeletableToken(TokenOfWord(args[2]))
          THEN /\ admin_reply' = "bot_not_found"
               /\ UNCHANGED bot_instances
          ELSE /\ bot_instances' = [t \in DOMAIN bot_instances \ {TokenOfWord(args[2])} |->
                                       bot_instances[t]]
               /\ admin_reply' = "bot_deleted_restart_needed"
    /\ UNCHANGED << routes, link_commands >>
    /\ AdminFrame

\* the tokens an admin types
TypedTokens == {MAIN_BOT_TOKEN, CloneToken}

AddCloneBotTexts ==
    { <<"/add_clone_bot", " ", t, " ", "n">> : t \in TypedTokens } \cup { <<"/add_clone_bot">> }

DeleteCloneBotTexts ==
    { <<"/delete_clone_bot", " ", t>> : t \in TypedTokens } \cup { <<"/delete_clone_bot">> }

\* /start and /admin
PanelTexts == { <<"/start">>, <<"/admin">> }

\* the senders of messages: the admin of Config.ADMIN_USER_IDS and a customer
Users == {1382414440, 501}

\* the bots a message can arrive on
Tokens == {MAIN_BOT_TOKEN, CloneToken}

\* route names an admin types: the name distribute_order computes for an
\* order from a to b, and a name of one word
RouteNames == { <<"a", " ", "ARROW", " ", "b">>, <<"x">> }

\* topic ids an admin types, with their values
ThreadIds == { [text |-> <<"9">>, value |-> 9] }

AddRouteTexts ==
    { <<"/add_route", " ">> \o n : n \in RouteNames } \cup { <<"/add_route">> }

DeleteRouteTexts ==
    { <<"/delete_route", " ">> \o n : n \in RouteNames } \cup { <<"/delete_route">> }

\* "/link_route <name> <thread_id>" for every route name and topic id
LinkRouteCommands ==
    { [text |-> <<"/link_route", " ">> \o n \o <<" ">> \o t.text, name |-> n,
       thread_id |-> t.value] : n \in RouteNames, t \in ThreadIds }

\* ------------------------------------------------------------------------
\* main(): creation of the bots and polling
\* ------------------------------------------------------------------------
\* the clone bots of a store that holds some when main() starts
StoredCloneTokens == {CloneToken, "clone_token_2"}

\* main() at the loop over storage.get_all_bot_instances(), the main bot
\* already in bots_to_poll, run on a store that holds clone bots. The store
\* InMemoryStorage() builds holds the main bot only: this is main() as a
\* unit, on the store its loop is written for.
InitPolling ==
    /\ fsm_state = [c \in Convs |-> NoState]
    /\ fsm_data = [c \in Convs |-> EmptyData]
    /\ orders = [o \in {} |-> <<>>]
    /\ routes = [r \in {} |-> None]
    /\ uuid_count = 0
    /\ confirm_task = [c \in Convs |-> IdleTask]
    /\ published = [o \in {} |-> <<>>]
    /\ callback_task = [d \in Drivers |-> IdleTask]
    /\ edits = {}
    /\ notified = {}
    /\ handler_result = [c \in Convs |-> "nothing"]
    /\ run = [c \in Convs |-> [on |-> FALSE, inputs |-> <<>>]]
    /\ accept_replies = {}
    /\ decline_replies = {}
    /\ listing = None
    /\ unhandled = None
    /\ bot_instances = [t \in {MAIN_BOT_TOKEN} \cup StoredCloneTokens |->
                           IF t = MAIN_BOT_TOKEN THEN BotInstance("Main Bot", TRUE)
                           ELSE BotInstance(<<"n">>, FALSE)]
    /\ polling = {}
    /\ posted = {}
    /\ error_log = {}
    /\ overlap_task = [c \in Convs |-> IdleTask]
    /\ pass_orders = [c \in Convs |-> {}]
    /\ link_commands = {}
    /\ admin_reply = "nothing"
    /\ main_task = [pc |-> "init", todo |-> StoredCloneTokens,
                    bots_to_poll |-> {MAIN_BOT_TOKEN}]

\* main() changes nothing but its own list, the loops and the log
MainFrame ==
    /\ UNCHANGED << routes, listing, bot_instances, link_commands, admin_reply,
                    overlap_task, confirm_task, handler_result, run, unhandled,
                    pass_orders >>
    /\ FsmUnchanged /\ StoreUnchanged /\ CallbacksUnchanged

\* one turn of the loop `for bot_instance in storage.get_all_bot_instances()`:
\* Bot(token=...) returns and the bot is appended to bots_to_poll, or raises,
\* which is logged, and the loop goes on
CreateCloneBot(t, created) ==
    /\ main_task.pc = "init"
    /\ t \in main_task.todo
    /\ ~bot_instances[t].is_main /\ bot_instances[t].active
    /\ main_task' = [main_task EXCEPT
                        !.todo = @ \ {t},
                        !.bots_to_poll = IF created THEN @ \cup {t} ELSE @]
    /\ error_log' = IF created THEN error_log
                    ELSE error_log \cup {[call |-> "init_bot", order_id |-> <<>>, who |-> t]}
    /\ UNCHANGED polling
    /\ MainFrame

main_create_bot(t) == CreateCloneBot(t, TRUE)

main_create_bot_failed(t) == CreateCloneBot(t, FALSE)

\* asyncio.gather(*(dp.start_polling(bot, ...) for bot in bots_to_poll)): a
\* start_polling is started for each bot of the list
main_gather ==
    /\ main_task.pc = "init"
    /\ main_task.todo = {}
    /\ polling' = main_task.bots_to_poll
    /\ main_task' = [main_task EXCEPT !.pc = "polling"]
    /\ UNCHANGED error_log
    /\ MainFrame

\* the start_polling of bot t raises (its token was revoked: the first call
\* to the API fails). gather is called without return_exceptions: the
\* exception is raised in main(), main() ends, and asyncio.run cancels the
\* start_polling tasks still running before it returns
polling_failed(t) ==
    /\ main_task.pc = "polling"
    /\ t \in polling
    /\ polling' = {}
    /\ main_task' = [main_task EXCEPT !.pc = "exited"]
    /\ error_log' = error_log \cup {[call |-> "polling", order_id |-> <<>>, who |-> t]}
    /\ MainFrame

\* ------------------------------------------------------------------------
\* The dispatcher
\* ------------------------------------------------------------------------
\* a message on a clone bot goes to the first registered handler whose
\* filters pass: clone_bot_start for /start in any state, else the handler
\* of the conversation's state; a message no handler takes is dropped
Deliver(c, m) ==
    \/ clone_bot_start(c, m)
    \/ process_from_location(c, m)
    \/ process_to_location(c, m)
    \/ process_phone(c, m)
    \/ process_luggage(c, m)
    \/ process_time(c, m)
    \/ process_comment(c, m)
    \/ process_passengers(c, m)
    \/ confirm_order(c, m)

\* the FSM state the dispatcher reads for a message of `user` on bot `token`
StateOf(token, user) ==
    IF <<token, user>> \in Convs THEN fsm_state[<<token, user>>] ELSE NoState

\* the commands of the admin handlers main() registers
AdminCommands ==
    { "/start", "/admin", "/add_clone_bot", "/list_clone_bots", "/delete_clone_bot",
      "/add_route", "/list_routes", "/link_route", "/delete_route",
      "/list_pending_orders" }

\* the filters of some handler registered on dp.message pass
MessageMatches(token, user, m) ==
    \/ /\ IsStartCommand(m) \/ \E cmd \in AdminCommands : IsCommand(m, cmd)
       /\ IsAdmin(user) /\ IsMainBot(token)
    \/ IsStartCommand(m) /\ IsCloneBot(token)
    \/ StateOf(token, user) # NoState /\ IsCloneBot(token)

\* the filters of a handler registered on dp.callback_query pass
CallbackMatches(token, data) ==
    /\ \/ StartsWith(data, S_accept \o <<"_">> \o S_order \o <<"_">>)
       \/ StartsWith(data, S_reject \o <<"_">> \o S_order \o <<"_">>)
    /\ IsMainBot(token)

\* the dispatcher found no handler for the update: nothing is called
DropFrame ==
    /\ UNCHANGED << routes, listing, bot_instances, polling, link_commands, admin_reply,
                    main_task, confirm_task, handler_result, run >>
    /\ FsmUnchanged /\ StoreUnchanged /\ CallbacksUnchanged /\ QuietUnchanged

\* a message no handler takes
drop_message(token, user, m) ==
    /\ ~MessageMatches(token, user, m)
    /\ unhandled' = Some([kind |-> "message", token |-> token, from |-> user, payload |-> m])
    /\ DropFrame

\* a callback query no handler takes
drop_callback(token, d, data) ==
    /\ ~CallbackMatches(token, data)
    /\ unhandled' = Some([kind |-> "callback_query", token |-> token, from |-> d[1],
                          payload |-> data])
    /\ DropFrame

\* the messages a customer may send in the state the conversation is in
CustomerInputs(c) == InputsAt(fsm_state[c]) \cup {StartMsg}

\* a customer who starts a dialog and gives one well-formed answer per step
CanonicalCustomerInputs(c) ==
    IF fsm_state[c] = NoState THEN {StartMsg} ELSE CanonicalInputsAt(fsm_state[c])

\* ------------------------------------------------------------------------
\* Specifications
\* ------------------------------------------------------------------------
\* the order dialog of a clone bot up to the posting of the order in the
\* drivers' group, on every input of CustomerInputs
Next ==
    \/ \E c \in Convs : \E m \in CustomerInputs(c) : clone_bot_start(c, m)
    \/ \E c \in Convs : \E m \in CustomerInputs(c) : process_from_location(c, m)
    \/ \E c \in Convs : \E m \in CustomerInputs(c) : process_to_location(c, m)
    \/ \E c \in Convs : \E m \in CustomerInputs(c) : process_phone(c, m)
    \/ \E c \in Convs : \E m \in CustomerInputs(c) : process_luggage(c, m)
    \/ \E c \in Convs : \E m \in CustomerInputs(c) : process_time(c, m)
    \/ \E c \in Convs : \E m \in CustomerInputs(c) : process_comment(c, m)
    \/ \E c \in Convs : \E m \in CustomerInputs(c) : process_passengers(c, m)
    \/ \E c \in Convs : \E m \in CustomerInputs(c) : confirm_order(c, m)
    \/ \E c \in Convs : confirm_order_answered(c)
    \/ \E c \in Convs : confirm_order_distributed(c)

Spec == Init /\ [][Next]_vars

\* the dialog of a customer who gives one well-formed answer per step
NextCanonicalDialog ==
    \/ \E c \in Convs : \E m \in CanonicalCustomerInputs(c) : clone_bot_start(c, m)
    \/ \E c \in Convs : \E m \in CanonicalCustomerInputs(c) : process_from_location(c, m)
    \/ \E c \in Convs : \E m \in CanonicalCustomerInputs(c) : process_to_location(c, m)
    \/ \E c \in Convs : \E m \in CanonicalCustomerInputs(c) : process_phone(c, m)
    \/ \E c \in Convs : \E m \in CanonicalCustomerInputs(c) : process_luggage(c, m)
    \/ \E c \in Convs : \E m \in CanonicalCustomerInputs(c) : process_time(c, m)
    \/ \E c \in Convs : \E m \in CanonicalCustomerInputs(c) : process_comment(c, m)
    \/ \E c \in Convs : \E m \in CanonicalCustomerInputs(c) : process_passengers(c, m)
    \/ \E c \in Convs : \E m \in CanonicalCustomerInputs(c) : confirm_order(c, m)
    \/ \E c \in Convs : confirm_order_answered(c)
    \/ \E c \in Convs : confirm_order_distributed(c)

\* the program as main() wires it: customers order through a clone bot,
\* drivers press the buttons distribute_order posted
NextWired ==
    \/ NextCanonicalDialog
    \/ \E d \in Drivers : \E o \in DOMAIN published : \E a \in {S_accept, S_reject} :
          press_button(d, o, a)
    \/ \E d \in Drivers : callback_answered(d)

SpecWired == Init /\ [][NextWired]_vars

\* handle_order_callback as a unit: the handler is called on callback data
\* "<action>_<order id>", for ids in the store and ids not in it
NextResolver ==
    \/ NextCanonicalDialog
    \/ \E d \in Drivers : \E data \in HarnessData : invoke_callback(d, data)
    \/ \E d \in Drivers : callback_answered(d)
    \/ \E d \in Drivers : callback_edited(d)
    \/ \E d \in Drivers : callback_notified(d)
    \/ list_pending_orders

SpecResolver == Init /\ [][NextResolver]_vars

\* the admin's route commands on the main bot, next to the dialog of a
\* customer who gives one well-formed answer per step
NextRoutes ==
    \/ NextCanonicalDialog
    \/ \E t \in Tokens : \E u \in Users : \E text \in AddRouteTexts :
          add_route(t, u, TextMsg(text))
    \/ \E t \in Tokens : \E u \in Users : \E cmd \in LinkRouteCommands :
          link_route(t, u, cmd)
    \/ \E t \in Tokens : \E u \in Users : \E text \in DeleteRouteTexts :
          delete_route(t, u, TextMsg(text))

SpecRoutes == Init /\ [][NextRoutes]_vars

\* the program as main() wires it, with a send_message of distribute_order
\* and a message.answer of confirm_order that may raise
NextDelivery ==
    \/ NextWired
    \/ \E c \in Convs : confirm_order_send_failed(c)
    \/ \E c \in Convs : confirm_order_answer_failed(c)
    \/ list_pending_orders

SpecDelivery == Init /\ [][NextDelivery]_vars

\* the admin panel: every command, from every sender, on every bot
NextAdmin ==
    \/ \E t \in Tokens : \E u \in Users : \E text \in PanelTexts :
          admin_start(t, u, TextMsg(text))
    \/ \E t \in Tokens : \E u \in Users : \E text \in AddCloneBotTexts :
          add_clone_bot(t, u, TextMsg(text))
    \/ \E t \in Tokens : \E u \in Users : \E text \in DeleteCloneBotTexts :
          delete_clone_bot(t, u, TextMsg(text))
    \/ \E t \in Tokens : \E u \in Users : \E text \in AddRouteTexts :
          add_route(t, u, TextMsg(text))
    \/ \E t \in Tokens : \E u \in Users : \E cmd \in LinkRouteCommands :
          link_route(t, u, cmd)
    \/ \E t \in Tokens : \E u \in Users : \E text \in DeleteRouteTexts :
          delete_route(t, u, TextMsg(text))

SpecAdmin == Init /\ [][NextAdmin]_vars

\* one text for each admin command of the registry of bots and of routes
AdminCommandTexts ==
    { <<"/admin">>,
      <<"/add_clone_bot", " ", CloneToken, " ", "n">>,
      <<"/delete_clone_bot", " ", CloneToken>>,
      <<"/add_route", " ", "x">>,
      <<"/delete_route", " ", "x">> }

\* the /link_route commands of the route x
ClassifyLinkCommands == { cmd \in LinkRouteCommands : cmd.name = <<"x">> }

\* what a user sends in a conversation: the answers of the dialog, and admin
\* commands before the first answer
ClassifyInputs(c) ==
    CanonicalCustomerInputs(c) \cup
        (IF fsm_state[c] \in {NoState, "waiting_for_from"}
         THEN {TextMsg(<<"/add_route", " ", "x">>)} ELSE {})

\* the callback data a client can send: the data of the buttons
ButtonData == { CallbackData(a, UuidStr(n)) : a \in {S_accept, S_reject}, n \in 1..MaxOrders }

\* every kind of update on every bot: the messages of the dialog and the
\* admin commands from every sender, and callback queries
NextClassify ==
    \/ \E c \in Convs : \E m \in ClassifyInputs(c) : clone_bot_start(c, m)
    \/ \E c \in Convs : \E m \in ClassifyInputs(c) : process_from_location(c, m)
    \/ \E c \in Convs : \E m \in ClassifyInputs(c) : process_to_location(c, m)
    \/ \E c \in Convs : \E m \in ClassifyInputs(c) : process_phone(c, m)
    \/ \E c \in Convs : \E m \in ClassifyInputs(c) : process_luggage(c, m)
    \/ \E c \in Convs : \E m \in ClassifyInputs(c) : process_time(c, m)
    \/ \E c \in Convs : \E m \in ClassifyInputs(c) : process_comment(c, m)
    \/ \E c \in Convs : \E m \in ClassifyInputs(c) : process_passengers(c, m)
    \/ \E c \in Convs : \E m \in ClassifyInputs(c) : confirm_order(c, m)
    \/ \E c \in Convs : confirm_order_answered(c)
    \/ \E c \in Convs : confirm_order_distributed(c)
    \/ \E t \in Tokens : \E u \in Users : \E text \in AdminCommandTexts :
          admin_start(t, u, TextMsg(text))
    \/ \E t \in Tokens : \E u \in Users : \E text \in AdminCommandTexts :
          add_clone_bot(t, u, TextMsg(text))
    \/ \E t \in Tokens : \E u \in Users : \E text \in AdminCommandTexts :
          delete_clone_bot(t, u, TextMsg(text))
    \/ \E t \in Tokens : \E u \in Users : \E text \in AdminCommandTexts :
          add_route(t, u, TextMsg(text))
    \/ \E t \in Tokens : \E u \in Users : \E cmd \in ClassifyLinkCommands :
          link_route(t, u, cmd)
    \/ \E t \in Tokens : \E u \in Users : \E text \in AdminCommandTexts :
          delete_route(t, u, TextMsg(text))
    \/ \E t \in Tokens : \E d \in Drivers : \E data \in ButtonData :
          callback_update(t, d, data)
    \/ \E d \in Drivers : callback_answered(d)

SpecClassify == Init /\ [][NextClassify]_vars

\* texts sent outside a dialog: an admin command, a command of the panel, and
\* a text that is no command
StrayTexts == { <<"/add_route", " ", "x">>, <<"/admin">>, <<"a">> }

\* the messages user `user` sends to bot `token`: the answers of the dialog
\* in a conversation, and stray texts before the dialog or where the user
\* has no dialog
MessagesOf(token, user) ==
    IF <<token, user>> \in Convs
    THEN CanonicalCustomerInputs(<<token, user>>) \cup
            (IF fsm_state[<<token, user>>] = NoState
             THEN {TextMsg(text) : text \in StrayTexts} \cup {StartMsg} ELSE {})
    ELSE {TextMsg(text) : text \in StrayTexts}

\* callback data with neither prefix of the registered filters
OtherButtonData == { <<"c", "a", "n", "c", "e", "l">> \o <<"_">> \o S_order \o <<"_">> \o UuidStr(1) }

\* one driver presses buttons
PressingDrivers == { <<71, "ann">> }

\* the commands of an admin that delete from the store, and /add_route
StoreCommandTexts ==
    { <<"/add_route", " ", "x">>,
      <<"/delete_route", " ", "x">>,
      <<"/delete_clone_bot", " ", MAIN_BOT_TOKEN>> }

\* every operation that writes InMemoryStorage next to the orders: the
\* dialog that stores and posts an order, handle_order_callback called on
\* the data of a driver, and the admin's commands
NextStore ==
    \/ NextCanonicalDialog
    \/ \E d \in PressingDrivers : \E data \in HarnessData : invoke_callback(d, data)
    \/ \E d \in PressingDrivers : callback_answered(d)
    \/ \E d \in PressingDrivers : callback_edited(d)
    \/ \E d \in PressingDrivers : callback_notified(d)
    \/ list_pending_orders
    \/ \E t \in Tokens : \E u \in Users : \E text \in StoreCommandTexts :
          add_route(t, u, TextMsg(text))
    \/ \E t \in Tokens : \E u \in Users : \E text \in StoreCommandTexts :
          delete_route(t, u, TextMsg(text))
    \/ \E t \in Tokens : \E u \in Users : \E text \in StoreCommandTexts :
          delete_clone_bot(t, u, TextMsg(text))

SpecStore == Init /\ [][NextStore]_vars

\* the dispatcher on every update: each handler is offered each message and
\* each callback query, and an update no handler takes is dropped
NextUnrouted ==
    \/ \E c \in Convs : \E m \in MessagesOf(c[1], c[2]) : clone_bot_start(c, m)
    \/ \E c \in Convs : \E m \in MessagesOf(c[1], c[2]) : process_from_location(c, m)
    \/ \E c \in Convs : \E m \in MessagesOf(c[1], c[2]) : process_to_location(c, m)
    \/ \E c \in Convs : \E m \in MessagesOf(c[1], c[2]) : process_phone(c, m)
    \/ \E c \in Convs : \E m \in MessagesOf(c[1], c[2]) : process_luggage(c, m)
    \/ \E c \in Convs : \E m \in MessagesOf(c[1], c[2]) : process_time(c, m)
    \/ \E c \in Convs : \E m \in MessagesOf(c[1], c[2]) : process_comment(c, m)
    \/ \E c \in Convs : \E m \in MessagesOf(c[1], c[2]) : process_passengers(c, m)
    \/ \E c \in Convs : \E m \in MessagesOf(c[1], c[2]) : confirm_order(c, m)
    \/ \E c \in Convs : confirm_order_answered(c)
    \/ \E c \in Convs : confirm_order_distributed(c)
    \/ \E t \in Tokens : \E u \in Users : \E text \in StrayTexts :
          admin_start(t, u, TextMsg(text))
    \/ \E t \in Tokens : \E u \in Users : \E text \in StrayTexts :
          add_route(t, u, TextMsg(text))
    \/ \E t \in Tokens : \E d \in PressingDrivers :
          \E data \in ButtonData \cup OtherButtonData : callback_update(t, d, data)
    \/ \E d \in PressingDrivers : callback_answered(d)
    \/ \E t \in Tokens : \E u \in Users : \E m \in MessagesOf(t, u) : drop_message(t, u, m)
    \/ \E t \in Tokens : \E d \in PressingDrivers :
          \E data \in ButtonData \cup OtherButtonData : drop_callback(t, d, data)

SpecUnrouted == Init /\ [][NextUnrouted]_vars

\* the dialog and handle_order_callback as a unit, with outbound calls that
\* may raise: message.answer and send_message in confirm_order and
\* distribute_order, query.answer, edit_message_text and send_message in
\* handle_order_callback
NextFailures ==
    \/ NextCanonicalDialog
    \/ \E c \in Convs : confirm_order_answer_failed(c)
    \/ \E c \in Convs : confirm_order_send_failed(c)
    \/ \E d \in Drivers : \E data \in HarnessData : invoke_callback(d, data)
    \/ \E d \in Drivers : callback_answered(d)
    \/ \E d \in Drivers : callback_answer_failed(d)
    \/ \E d \in Drivers : callback_edited(d)
    \/ \E d \in Drivers : callback_edit_failed(d)
    \/ \E d \in Drivers : callback_notified(d)
    \/ \E d \in Drivers : callback_notify_failed(d)

SpecFailures == Init /\ [][NextFailures]_vars

\* handle_order_callback as a unit with calls that may raise, the dialog's
\* own calls returning
NextNotify ==
    \/ NextCanonicalDialog
    \/ \E d \in Drivers : \E data \in HarnessData : invoke_callback(d, data)
    \/ \E d \in Drivers : callback_answered(d)
    \/ \E d \in Drivers : callback_answer_failed(d)
    \/ \E d \in Drivers : callback_edited(d)
    \/ \E d \in Drivers : callback_edit_failed(d)
    \/ \E d \in Drivers : callback_notified(d)
    \/ \E d \in Drivers : callback_notify_failed(d)

SpecNotify == Init /\ [][NextNotify]_vars

\* main() from the creation of the clone bots on, with the admin panel
\* served once the polling has started
NextPolling ==
    \/ \E t \in StoredCloneTokens : main_create_bot(t)
    \/ \E t \in StoredCloneTokens : main_create_bot_failed(t)
    \/ main_gather
    \/ \E t \in Tokens \cup StoredCloneTokens : polling_failed(t)
    \/ (MAIN_BOT_TOKEN \in polling /\ NextAdmin)

SpecPolling == InitPolling /\ [][NextPolling]_vars

\* the dialog with messages of one conversation arriving faster than
\* confirm_order handles them
NextOverlap ==
    \/ Next
    \/ \E c \in Convs : \E m \in InputsAt("confirm_order") : confirm_order_overlapping(c, m)
    \/ \E c \in Convs : confirm_order_overlapping_resumed(c)

SpecOverlap == Init /\ [][NextOverlap]_vars

\* ------------------------------------------------------------------------
\* Properties of the claim resolver (handle_order_callback)
\* ------------------------------------------------------------------------
\* driver d's callback is dispatched in this step
ClaimStarts(d) ==
    callback_task[d].pc \in {"idle", "done", "aborted"} /\ callback_task'[d].pc = "answer"

\* a handle_order_callback run of d that has not returned yet
InFlight(d) == callback_task[d].pc \in {"answer", "edit", "notify"}

Winners(o) == {d \in Drivers : <<o, d>> \in accept_replies}

C2_ButtonRoundTrip ==
    /\ \A o \in DOMAIN published :
          /\ SplitAction(published[o].accept_data) = S_accept
          /\ SplitAction(published[o].reject_data) = S_reject
          /\ SplitOrderId(published[o].accept_data) = o
          /\ SplitOrderId(published[o].reject_data) = o
    /\ \A d \in Drivers :
          callback_task[d].pc # "idle" => callback_task[d].reply # "NotFound"

C4_ClaimedIsFinal ==
    [][\A o \in DOMAIN orders :
          orders[o].status = "accepted" =>
             /\ o \in DOMAIN orders'
             /\ orders'[o].status = "accepted"
             /\ orders'[o].driver_id = orders[o].driver_id
             /\ orders'[o].driver_username = orders[o].driver_username]_vars

\* an accepted order has seen a later accept and a later reject of the other
\* driver, and the dialog handler's late write of the customer message id
C4_Witness ==
    \E o \in DOMAIN orders : \E d \in Drivers :
        /\ orders[o].status = "accepted"
        /\ orders[o].driver_id # Some(d[1])
        /\ orders[o].customer_message_id # None
        /\ callback_task[d].pc = "done"
        /\ callback_task[d].order_id = o
        /\ callback_task[d].reply = "AlreadyResolved"
        /\ listing # None

\* C5: a callback whose order id is not in the store is answered NotFound
\* whatever its action, and neither its dispatch nor its return changes the
\* store, edits a group message or notifies a customer.
C5_UnknownIdNotFound ==
    [][\A d \in Drivers :
          /\ (ClaimStarts(d) /\ callback_task'[d].order_id \notin DOMAIN orders) =>
                /\ callback_task'[d].reply = "NotFound"
                /\ UNCHANGED << orders, edits, notified >>
          /\ (callback_task[d].pc = "answer" /\ callback_task[d].reply = "NotFound"
                /\ callback_task'[d] # callback_task[d]) =>
                /\ callback_task'[d].pc = "done"
                /\ UNCHANGED << orders, edits, notified >>]_vars

\* both an accept and a reject on an unknown id were answered NotFound
C5_Witness ==
    \E a \in Drivers : \E b \in Drivers \ {a} :
        /\ callback_task[a].pc = "done" /\ callback_task[b].pc = "done"
        /\ callback_task[a].reply = "NotFound" /\ callback_task[b].reply = "NotFound"
        /\ callback_task[a].action = S_accept /\ callback_task[b].action = S_reject
        /\ DOMAIN orders # {}

\* ------------------------------------------------------------------------
\* Properties of the order dialog
\* ------------------------------------------------------------------------
\* C6: after /start and n well-formed answers given in the order of the
\* dialog, the conversation is at step n + 1 and the data holds, under the key
\* of each step passed, the value of the answer given there (stripped text;
\* the party size as a number); after the seventh answer the conversation
\* awaits confirmation and the data has exactly the seven keys.
C6_CanonicalRun ==
    \A c \in Convs :
        run[c].on =>
            LET n == Len(run[c].inputs)
            IN /\ fsm_state[c] = OrderStates[n + 1]
               /\ \A k \in 1..n :
                     /\ Fields[k] \in DOMAIN fsm_data[c]
                     /\ fsm_data[c][Fields[k]] = ValueOfAnswer(k, run[c].inputs[k])
               /\ n = 7 => DOMAIN fsm_data[c] = FieldSet

\* seven well-formed answers were given, two of them with surrounding spaces
C6_Witness ==
    \E c \in Convs :
        /\ run[c].on
        /\ Len(run[c].inputs) = 7
        /\ run[c].inputs[1] = TextMsg(<<" ", "b", " ">>)
        /\ run[c].inputs[7] = TextMsg(<<" ", "2", " ">>)
        /\ fsm_state[c] = "confirm_order"

\* a well-formed answer at step k stores its value and moves to step k + 1
AdvancesOnValid(c, k) ==
    \A m \in {a.msg : a \in ValidAnswers(k)} :
        (fsm_state[c] = OrderStates[k] /\ Deliver(c, m)) =>
            /\ fsm_state'[c] = OrderStates[k + 1]
            /\ fsm_data'[c][Fields[k]] = ValueOfAnswer(k, m)
            /\ handler_result'[c] \in {"prompt", "review"}

\* an ill-formed text at step k is rejected and changes neither the state nor
\* the data
RejectsInvalid(c, k) ==
    \A m \in InvalidTexts(k) :
        (fsm_state[c] = OrderStates[k] /\ Deliver(c, m)) =>
            /\ handler_result'[c] = "invalid"
            /\ UNCHANGED << fsm_state, fsm_data >>

YesTexts == { TextMsg(<<"y", "e", "s">>), TextMsg(<<"Y", "e", "S">>) }
NoTexts  == { TextMsg(<<"n", "o">>), TextMsg(<<"N", "O">>) }

\* the texts that equal yes / no once stripped, when case is ignored
YesTextsStripped == YesTexts \cup { TextMsg(<<" ", "y", "e", "s">>) }
NoTextsStripped  == NoTexts \cup { TextMsg(<<"n", "o", " ">>) }

\* what confirm_order does with message m, Yes and No being the sets of
\* messages that count as yes and as no
ConfirmationEffect(c, m, Yes, No) ==
    (fsm_state[c] = "confirm_order" /\ Deliver(c, m)) =>
        IF m \in Yes
        THEN /\ Cardinality(DOMAIN orders') = Cardinality(DOMAIN orders) + 1
             /\ DOMAIN orders \subseteq DOMAIN orders'
             /\ \A o \in DOMAIN orders' \ DOMAIN orders :
                   /\ \A f \in FieldSet : orders'[o][f] = fsm_data[c][f]
                   /\ orders'[o].status = "pending"
                   /\ confirm_task'[c].pc = "answer"
                   /\ confirm_task'[c].order_id = o
        ELSE IF m \in No
        THEN /\ fsm_state'[c] = NoState
             /\ fsm_data'[c] = EmptyData
             /\ orders' = orders
        ELSE UNCHANGED << fsm_state, fsm_data, orders >>

\* the handler of a yes, once it has stored its order, adds no other order
\* and ends by clearing the conversation
YesHandlerClears(c) ==
    /\ confirm_task[c].pc # "idle" => DOMAIN orders' = DOMAIN orders
    /\ (confirm_task[c].pc # "idle" /\ confirm_task'[c].pc = "idle") =>
          /\ fsm_state'[c] = NoState
          /\ fsm_data'[c] = EmptyData

KeysPassed(st) ==
    IF st = NoState THEN {} ELSE {Fields[k] : k \in 1..(StateIndex(st) - 1)}

\* C9: the data of a conversation has exactly the keys of the steps passed in
\* its dialog, and a conversation awaiting confirmation has every field, the
\* text fields non-empty and stripped and the party size a positive number.
C9_KeysOfStepsPassed ==
    \A c \in Convs :
        /\ DOMAIN fsm_data[c] = KeysPassed(fsm_state[c])
        /\ fsm_state[c] = "confirm_order" =>
              /\ \A k \in 1..6 :
                    /\ fsm_data[c][Fields[k]] # <<>>
                    /\ Strip(fsm_data[c][Fields[k]]) = fsm_data[c][Fields[k]]
              /\ fsm_data[c]["passengers"] > 0

\* an order is being handled by a confirm_order that has not returned
BeingFinalized(o) ==
    \E c \in Convs : confirm_task[c].pc # "idle" /\ confirm_task[c].order_id = o

\* a yes after /start and seven well-formed answers stores an order with the
\* values of those answers, pending
FinalizeStoresRun(c) ==
    \A m \in YesTextsStripped :
        (run[c].on /\ Len(run[c].inputs) = 7 /\ Deliver(c, m)) =>
            /\ DOMAIN orders' # DOMAIN orders
            /\ \A o \in DOMAIN orders' \ DOMAIN orders :
                  /\ \A k \in 1..7 : orders'[o][Fields[k]] = ValueOfAnswer(k, run[c].inputs[k])
                  /\ orders'[o].status = "pending"

\* every order confirm_order is done with was posted, under route name Name
PostedUnder(Name(_)) ==
    \A o \in DOMAIN orders :
        /\ orders[o].status = "pending"
        /\ ~BeingFinalized(o) =>
              /\ o \in DOMAIN published
              /\ published[o].route_name = Name(orders[o])

RouteNameWithSpaces(order) ==
    order.from_location \o <<" ", "ARROW", " ">> \o order.to_location

PostsOrder(c) == confirm_task[c].pc = "answer" /\ confirm_task'[c].pc = "send"

\* C11: an order is posted to the topic the admin's last /link_route command
\* for the order's route name gave, when the route was added and linked, and
\* to the group without a topic when there is no such command.
C11_RouteBoundPublish ==
    [][\A c \in Convs :
          PostsOrder(c) =>
             LET o == confirm_task[c].order_id
                 n == RouteNameWithSpaces(orders[o])
             IN /\ \A lc \in link_commands :
                       lc[1] = n => published'[o].message_thread_id = Some(lc[2])
                /\ (\A lc \in link_commands : lc[1] # n)
                       => published'[o].message_thread_id = None]_vars

\* the orders whose post in the drivers' group failed
FailedToPost == {e.order_id : e \in {x \in error_log : x.call = "send_order"}}

\* C12: when the send_message of distribute_order raises, the handler goes
\* on and clears the conversation, the order stays in the store, pending and
\* without a message in the group, and every /list_pending_orders lists it.
C12_PublishFailureSwallowed ==
    /\ [](\A o \in FailedToPost :
             /\ o \in DOMAIN orders
             /\ orders[o].status = "pending"
             /\ o \notin posted)
    /\ [][\A c \in Convs :
             (confirm_task[c].pc = "send" /\ error_log' # error_log) =>
                /\ fsm_state'[c] = NoState
                /\ fsm_data'[c] = EmptyData
                /\ confirm_task'[c] = IdleTask]_vars
    /\ [][listing' # listing => \A l \in listing' : FailedToPost \subseteq l]_vars

\* the post of an order failed, its conversation is cleared and the order
\* was listed as pending
C12_Witness ==
    \E c \in Convs : \E o \in FailedToPost :
        /\ fsm_state[c] = NoState
        /\ orders[o].customer_chat_id = c[2]
        /\ listing = Some({o})

\* ------------------------------------------------------------------------
\* Properties of the dispatch
\* ------------------------------------------------------------------------
\* C13: no two handlers of one conversation are in flight together: a
\* message of a conversation is dispatched only when the handler of the
\* message before it has returned.
C13_NoOverlapInConversation ==
    \A c \in Convs : ~(confirm_task[c].pc # "idle" /\ overlap_task[c].pc # "idle")

\* ------------------------------------------------------------------------
\* Properties of the bot registry and of the polling
\* ------------------------------------------------------------------------
\* the active bots of the store
ActiveBots == {t \in DOMAIN bot_instances : bot_instances[t].active}

\* C14: the bots with a running receive loop are exactly the active bots of
\* the store, whatever /add_clone_bot and /delete_clone_bot commands were
\* handled.
C14_LoopsMatchRegistry == polling = ActiveBots

\* the bots of the store marked as the main bot
PrivilegedBots == {t \in DOMAIN bot_instances : bot_instances[t].is_main}

\* C16: the store has exactly one bot marked is_main, the one with
\* Config.MAIN_BOT_TOKEN, whatever /add_clone_bot and /delete_clone_bot
\* commands were handled, the main bot's own token included.
C16_OnePrivilegedBot == PrivilegedBots = {MAIN_BOT_TOKEN}

ClaimEnds(d) == InFlight(d) /\ callback_task'[d].pc \in {"done", "aborted"}

\* C17: whichever outbound calls fail, a handler does all its steps: when
\* the handler of an accepted claim ends, the edit of the group message and
\* the notification of the customer were attempted; when the handler of a
\* yes ends, the order was posted (or its post attempted) and the
\* conversation is cleared.
C17_FailuresNeverAbort ==
    /\ [][\A d \in Drivers :
             (ClaimEnds(d) /\ callback_task[d].reply = "Accepted") =>
                /\ \E e \in edits' : e.order_id = callback_task[d].order_id /\ e.driver = d
                /\ \E n \in notified' : n.order_id = callback_task[d].order_id /\ n.driver = d]_vars
    /\ [][\A c \in Convs :
             (confirm_task[c].pc # "idle" /\ confirm_task'[c].pc = "idle") =>
                /\ confirm_task[c].order_id \in DOMAIN published'
                /\ fsm_state'[c] = NoState
                /\ fsm_data'[c] = EmptyData]_vars

\* the notifications sent for order o
NotificationsOf(o) == {n \in notified : n.order_id = o}

\* C18: a customer is notified only by the handler of a claim answered
\* Accepted on the customer's order, at most once per order, with the
\* accepting driver named; the handler of a claim answered Declined,
\* AlreadyResolved or NotFound notifies nobody.
C18_NotifyOnlyWinner ==
    /\ [](\A n \in notified :
             /\ <<n.order_id, n.driver>> \in accept_replies
             /\ n.order_id \in DOMAIN orders
             /\ orders[n.order_id].driver_id = Some(n.driver[1])
             /\ orders[n.order_id].driver_username = Some(n.driver[2])
             /\ n.chat_id = orders[n.order_id].customer_chat_id
             /\ Cardinality(NotificationsOf(n.order_id)) = 1)
    /\ [][\A d \in Drivers :
             /\ (callback_task[d].pc = "edit" /\ callback_task'[d].pc = "notify") =>
                   /\ callback_task[d].reply = "Accepted"
                   /\ NotificationsOf(callback_task[d].order_id) = {}
             /\ (InFlight(d) /\ callback_task[d].reply # "Accepted") =>
                   \A n \in notified' \ notified : n.driver # d]_vars

\* a customer was notified of the driver who accepted, although the edit of
\* the group message had failed, and the other driver, answered
\* AlreadyResolved on the same order, has returned
C18_Witness ==
    \E n \in notified : \E d \in Drivers \ {n.driver} :
        /\ "edit" \in callback_task[n.driver].failed
        /\ callback_task[n.driver].pc = "done"
        /\ callback_task[d].pc = "done"
        /\ callback_task[d].order_id = n.order_id
        /\ callback_task[d].reply = "AlreadyResolved"

AdminHandlerTakes(t, u, text) ==
    \/ admin_start(t, u, TextMsg(text))
    \/ add_clone_bot(t, u, TextMsg(text))
    \/ delete_clone_bot(t, u, TextMsg(text))
    \/ add_route(t, u, TextMsg(text))
    \/ delete_route(t, u, TextMsg(text))
    \/ \E cmd \in ClassifyLinkCommands : cmd.text = text /\ link_route(t, u, cmd)

AllAdminTexts == AdminCommandTexts \cup {cmd.text : cmd \in ClassifyLinkCommands}

\* C20: the store of bots and routes changes only in a step of an admin
\* handler that takes a message of the admin on the main bot; no admin
\* handler takes a message of another sender or on another bot, and
\* handle_order_callback takes no callback query on a clone bot; and the FSM
\* state and data of a conversation on the main bot never change.
C20_ClassifiedByOrigin ==
    /\ [][(bot_instances' # bot_instances \/ routes' # routes) =>
             \E text \in AllAdminTexts :
                 AdminHandlerTakes("main_token", 1382414440, text)]_vars
    /\ [][\A t \in Tokens : \A u \in Users : \A text \in AllAdminTexts :
             (t # "main_token" \/ u # 1382414440) => ~AdminHandlerTakes(t, u, text)]_vars
    /\ [][\A d \in Drivers : \A data \in ButtonData :
             ~callback_update("clone_token", d, data)]_vars
    /\ [][\A c \in Convs :
             c[1] = "main_token" =>
                /\ fsm_state'[c] = fsm_state[c]
                /\ fsm_data'[c] = fsm_data[c]]_vars

\* the admin registered a clone bot on the main bot, a customer's
\* /add_route on the clone bot was taken as the pickup location of an
\* order that was then posted, and a driver's callback query was handled
C20_Witness ==
    \E c \in Convs : \E o \in DOMAIN orders : \E d \in Drivers :
        /\ c[1] = "clone_token"
        /\ "clone_token" \in DOMAIN bot_instances
        /\ <<"x">> \notin DOMAIN routes
        /\ orders[o].from_location = <<"/add_route", " ", "x">>
        /\ o \in posted
        /\ callback_task[d].pc = "done"
        /\ fsm_state[<<"main_token", 501>>] = NoState

\* the moves of the FSM state the dialog is specified to make in one update:
\* none, from no state to the first step, to the next step, or from the
\* confirmation to no state
LinearMove(from, to) ==
    \/ to = from
    \/ from = NoState /\ to = "waiting_for_from"
    \/ /\ from # NoState /\ to # NoState
       /\ StateIndex(to) = StateIndex(from) + 1
    \/ from = "confirm_order" /\ to = NoState

\* C21: no update moves the FSM state of a conversation otherwise than to
\* the next step of the dialog (or from the confirmation to no state); a
\* /start received in the middle of a dialog does not move it back.
C21_NoBacktracking ==
    [][\A c \in Convs : LinearMove(fsm_state[c], fsm_state'[c])]_vars

\* C22: a message without text received at a step of the dialog or at the
\* confirmation is rejected as invalid input: the handler returns without
\* an exception, prompts again, and changes neither the state nor the data.
C22_NoTextIsInvalid ==
    [][\A c \in Convs :
          (fsm_state[c] # NoState /\ Deliver(c, NoTextMsg)) =>
              /\ handler_result'[c] = "invalid"
              /\ UNCHANGED << fsm_state, fsm_data >>]_vars

\* some handler takes message m of `user` on bot `token` in this step
MessageHandled(token, user, m) ==
    \/ <<token, user>> \in Convs /\ Deliver(<<token, user>>, m)
    \/ admin_start(token, user, m)
    \/ add_route(token, user, m)

\* the stores and everything sent out
StoresAndOutbound ==
    << fsm_state, fsm_data, orders, uuid_count, routes, bot_instances, link_commands,
       published, posted, edits, notified, accept_replies, decline_replies,
       handler_result, admin_reply, listing >>

\* C23: a text that is not /start in a conversation without state on a
\* clone bot, an admin command on the main bot from a sender who is no
\* admin, and a callback query whose data has neither prefix match no
\* handler: no handler runs on them, and the step that drops such an update
\* changes no store and sends nothing.
C23_UnroutedDropped ==
    /\ [][\A t \in Tokens : \A u \in Users : \A m \in MessagesOf(t, u) :
             (\/ IsCloneBot(t) /\ StateOf(t, u) = NoState /\ ~IsStartCommand(m)
              \/ /\ IsMainBot(t) /\ u \notin {1382414440}
                 /\ \E cmd \in AdminCommands : IsCommand(m, cmd))
             => /\ ~MessageHandled(t, u, m)
                /\ ~MessageMatches(t, u, m)]_vars
    /\ [][\A t \in Tokens : \A d \in Drivers : \A data \in OtherButtonData :
             ~callback_update(t, d, data) /\ ~CallbackMatches(t, data)]_vars
    /\ [][unhandled' # unhandled => UNCHANGED StoresAndOutbound]_vars

\* with an order posted and a route in the store, a customer's /add_route
\* on the main bot was dropped
C23_Witness ==
    /\ unhandled = Some([kind |-> "message", token |-> "main_token", from |-> 501,
                         payload |-> TextMsg(<<"/add_route", " ", "x">>)])
    /\ posted # {}
    /\ <<"x">> \in DOMAIN routes
    /\ admin_reply = "route_added"

\* C24: the store of orders only grows: no step of the dialog, of
\* handle_order_callback or of an admin command removes an order id from it.
C24_OrdersOnlyGrow ==
    [][DOMAIN orders \subseteq DOMAIN orders']_vars

\* an order was stored, declined by a driver and listed by an admin, a route
\* was added and deleted again and the entry of the main bot was deleted:
\* the order is still in the store
C24_Witness ==
    \E o \in DOMAIN orders :
        /\ orders[o].status = "rejected"
        /\ o \in posted
        /\ listing # None
        /\ admin_reply = "route_deleted"
        /\ "main_token" \notin DOMAIN bot_instances

\* C25: the orders stored since a conversation came to the confirmation are
\* at most one: a yes received after a yes of the same pass through the
\* confirmation stores no second order.
C25_OneOrderPerPass ==
    \A c \in Convs : Cardinality(pass_orders[c]) <= 1

\* C26: an order has a claimant, the id and the name of a driver, exactly
\* when its status is accepted; a pending or a rejected order has neither.
C26_ClaimantIffAccepted ==
    \A o \in DOMAIN orders :
        IF orders[o].status = "accepted"
        THEN orders[o].driver_id # None /\ orders[o].driver_username # None
        ELSE orders[o].driver_id = None /\ orders[o].driver_username = None

\* ann's accept went through to the notification of the customer, and bob's
\* reject of the same order came too late
C26_Witness ==
    \E o \in DOMAIN orders :
        /\ orders[o].status = "accepted"
        /\ orders[o].driver_id = Some(71)
        /\ orders[o].driver_username = Some("ann")
        /\ callback_task[<<71, "ann">>].pc = "done"
        /\ callback_task[<<72, "bob">>].pc = "done"
        /\ callback_task[<<72, "bob">>].action = S_reject
        /\ callback_task[<<72, "bob">>].reply = "AlreadyResolved"
        /\ \E n \in notified : n.order_id = o

====
